---- MODULE Spec2Model ----
(***************************************************************************)
(* Filamentous-network extraction engine (Vectorisation.py and             *)
(* net_utilities.py): the graph simplifier removeRedundantNodes, the       *)
(* persistence steps drawAndSave and cleanAndSaveGraph, the contour and    *)
(* mesh stage createContours / createMesh with getInteriorPoint, the       *)
(* triangle classification / pruning / graph-build chain and the slice     *)
(* loop of vectorize.                                                      *)
(*                                                                         *)
(* Numbers.  Edge weights are lengths (floats in the program); the model   *)
(* counts them in units of 1/Unit, so the program's 1.0 is Unit.           *)
(* Conductivities are exact rationals <<num, den>> in lowest terms.        *)
(* Graphs are networkx graphs on a Python whose dicts keep insertion       *)
(* order: nodes is the iteration order of G.nodes(), adj[u] the iteration  *)
(* order of G.neighbors(u).                                                *)
(***************************************************************************)
EXTENDS Integers, Sequences, FiniteSets, TLC

VARIABLES
    G,          \* removeRedundantNodes / drawAndSave: the graph being worked on
    G0,         \* the graph as it was handed in (never written after the call)
    mode,       \* removeRedundantNodes: the mode argument
    order,      \* removeRedundantNodes: local order
    new_order,  \* removeRedundantNodes: local new_order
    i,          \* removeRedundantNodes: local i, the pass counter
    pc,         \* position in the routine the specification runs
    scanpos,    \* position of the for loop over G.nodes() (1-based)
    nodelist,   \* removeRedundantNodes: keys of the dict nodelist, in insertion order
    last,       \* the collapse performed by the latest step of the scan, or NoCollapse
    saved,      \* drawAndSave: the graph written to disk, or NotSaved
    counts,     \* the node count at the call and after each finished pass
    redundancy, \* cleanAndSaveGraph: params['r']
    written,    \* cleanAndSaveGraph: the graphs drawAndSave has written, in order
    triangles,  \* the current list of triangles (each an index into the triangulation)
    shared,     \* the triangulation: the pairs of triangles that share an edge
    triangulation, \* the list of triangles as the triangulation delivered it
    ttype,      \* the type each triangle carries since it was last (re)labelled
    pruning,    \* the pruning order P
    round,      \* bruteforcePruning: the removal rounds done so far
    slices,     \* vectorize: the slices of the batch
    sidx,       \* vectorize: the slice being processed (1-based), 0 before the first
    called,     \* vectorize: per slice, the pipeline stages invoked for it, in order
    persisted,  \* vectorize: per slice, the graph written for it, or NotSaved
    raw_contours,   \* createContours: the contours found in the image
    flattened_contours, \* the contours that passed the length threshold
    longuest_index, \* createContours: position (0-based) of the longest contour
    mesh_points,    \* createMesh: the points of the mesh, <<contour, point>> each
    mesh_facets,    \* createMesh: the facets, pairs of positions in mesh_points
    hole_points     \* createMesh: the hole markers, in order

rrnVars == <<G, G0, mode, order, new_order, i, scanpos, nodelist, last, saved, counts>>
cleanVars == <<redundancy, written>>
triVars == <<triangles, shared, triangulation, ttype, pruning, round>>
vecVars == <<slices, sidx, called, persisted>>
meshVars == <<raw_contours, flattened_contours, longuest_index, mesh_points,
              mesh_facets, hole_points>>
vars == <<rrnVars, cleanVars, pc, triVars, vecVars, meshVars>>

----------------------------------------------------------------------------
(* Bounds of the model *)

MaxNodes == 5       \* largest node count of the graphs of Spec and SpecSave
Unit == 2           \* weight units per 1.0 of length
MaxX == 2           \* SpecMerge: node centres lie at 0..MaxX units on a line
MaxR == 1           \* SpecMerge: node radii are 0..MaxR
MaxYNodes == 6      \* SpecY: largest node count of the Y-shaped trees
MaxTriangles == 5   \* SpecTri: largest triangle count of a triangulation
MaxPruning == 2     \* SpecTri: largest pruning order P
MaxSlices == 2      \* SpecVec: largest number of slices in the batch
SlicePixels == 2    \* SpecVec: pixels per slice

----------------------------------------------------------------------------
(* Helpers: sets, sequences, rationals *)

Range(s) == {s[k] : k \in DOMAIN s}

RECURSIVE SortedSeq(_)
SortedSeq(S) ==
    IF S = {} THEN <<>>
    ELSE LET m == CHOOSE x \in S : \A y \in S : x <= y
         IN <<m>> \o SortedSeq(S \ {m})

RECURSIVE SumOver(_, _)
SumOver(f, S) ==
    IF S = {} THEN 0
    ELSE LET e == CHOOSE x \in S : TRUE IN f[e] + SumOver(f, S \ {e})

Abs(x) == IF x < 0 THEN -x ELSE x

RECURSIVE GCD(_, _)
GCD(a, b) == IF b = 0 THEN a ELSE GCD(b, a % b)

\* a rational in lowest terms; den > 0, num >= 0
Norm(num, den) ==
    IF num = 0 THEN <<0, 1>>
    ELSE LET g == GCD(num, den) IN <<num \div g, den \div g>>

Pairs(V) == {e \in SUBSET V : Cardinality(e) = 2}

Other(e, a) == CHOOSE b \in e : b # a

----------------------------------------------------------------------------
(* networkx.Graph: the operations the program calls *)

\* nodes, adjacency and the attributes: w and c are the edges' weight and
\* conductivity, x and r the nodes' x and conductivity (a node added by add_edge has
\* neither)
EmptyGraph == [nodes |-> <<>>, adj |-> <<>>, w |-> <<>>, c |-> <<>>, x |-> <<>>, r |-> <<>>]

NodeSet(g) == Range(g.nodes)
EdgeSet(g) == DOMAIN g.w
Order(g) == Len(g.nodes)
Neighbors(g, u) == g.adj[u]
Degree(g, u) == Len(g.adj[u])

\* G.add_edge(a, b, weight=wt, conductivity=cd): an endpoint the graph does not have
\* yet is added as a node; a new edge is appended to both adjacency dicts; an existing
\* edge keeps its place and has its attributes overwritten
AddEdge(g, a, b, wt, cd) ==
    LET e == {a, b}
        isNew == e \notin DOMAIN g.w
        missing == SelectSeq(IF a = b THEN <<a>> ELSE <<a, b>>,
                             LAMBDA u : u \notin Range(g.nodes))
        old(u) == IF u \in DOMAIN g.adj THEN g.adj[u] ELSE <<>>
    IN [nodes |-> g.nodes \o missing,
        adj |-> [u \in DOMAIN g.adj \cup {a, b} |->
                    IF isNew /\ u = a THEN Append(old(u), b)
                    ELSE IF isNew /\ u = b THEN Append(old(u), a)
                    ELSE old(u)],
        w |-> [y \in DOMAIN g.w \cup {e} |-> IF y = e THEN wt ELSE g.w[y]],
        c |-> [y \in DOMAIN g.c \cup {e} |-> IF y = e THEN cd ELSE g.c[y]],
        x |-> g.x,
        r |-> g.r]

\* G.remove_node(n): n and every edge at n disappear, the order of the rest is kept
RemoveNode(g, n) ==
    LET keep == {e \in DOMAIN g.w : n \notin e}
    IN [nodes |-> SelectSeq(g.nodes, LAMBDA u : u # n),
        adj |-> [u \in DOMAIN g.adj \ {n} |-> SelectSeq(g.adj[u], LAMBDA v : v # n)],
        w |-> [y \in keep |-> g.w[y]],
        c |-> [y \in keep |-> g.c[y]],
        x |-> [u \in DOMAIN g.x \ {n} |-> g.x[u]],
        r |-> [u \in DOMAIN g.r \ {n} |-> g.r[u]]]

RECURSIVE RemoveNodes(_, _)
RemoveNodes(g, ns) ==
    IF ns = <<>> THEN g ELSE RemoveNodes(RemoveNode(g, Head(ns)), Tail(ns))

----------------------------------------------------------------------------
(* createGraph: the graph of a triangle adjacency relation.  Node k is     *)
(* triangle k; xs[k] is its centre (centres on one line, so the Euclidean  *)
(* distance is |xs[a] - xs[b]|), rs[k] its radius.                         *)

EdgeConductivity_Sum(ra, rb) == Norm(ra + rb, 1)

\* lines 335-336: (conductivity of the one end + conductivity of the other) / 2.0
EdgeConductivity(ra, rb) == Norm(ra + rb, 2)

EdgeLength(xa, xb) == Abs(xa - xb)

createGraph(n, E, xs, rs) ==
    LET V == 0 .. (n - 1)
    IN [nodes |-> [k \in 1 .. n |-> k - 1],
        adj |-> [u \in V |-> SortedSeq({v \in V : {u, v} \in E})],
        w |-> [e \in E |->
                 LET a == CHOOSE x \in e : TRUE IN EdgeLength(xs[a], xs[Other(e, a)])],
        c |-> [e \in E |->
                 LET a == CHOOSE x \in e : TRUE IN EdgeConductivity(rs[a], rs[Other(e, a)])],
        x |-> [u \in V |-> xs[u]],
        r |-> [u \in V |-> rs[u]]]

----------------------------------------------------------------------------
(* removeRedundantNodes *)

NoCollapse == [v |-> -1]
NotSaved == [nodes |-> <<-1>>]
Modes == {0, 1, 2, 3}

\* lines 393 and 399: length = float(w1) + float(w2); if length == 0: length = 1
MergeLength(w1, w2) ==
    LET length == w1 + w2 IN IF length = 0 THEN Unit ELSE length

MergeRadius_Unweighted(c1, w1, c2, w2, length) ==
    Norm(c1[1] * c2[2] + c2[1] * c1[2], 2 * c1[2] * c2[2])

\* line 400: radius = (c1*w1 + c2*w2) / length
MergeRadius(c1, w1, c2, w2, length) ==
    Norm(c1[1] * w1 * c2[2] + c2[1] * w2 * c1[2], c1[2] * c2[2] * length)

MayMark_Always(nl, n1, n2) == TRUE

\* line 402: if n1 not in nodelist and n2 not in nodelist
MayMark(nl, n1, n2) == n1 \notin Range(nl) /\ n2 \notin Range(nl)

\* lines 370-374
Enter ==
    /\ pc = "start"
    /\ order' = Order(G)
    /\ new_order' = 0
    /\ i' = 0
    /\ pc' = "top"
    /\ counts' = <<Order(G)>>
    /\ UNCHANGED <<G, G0, mode, scanpos, nodelist, last, saved>>
    /\ UNCHANGED <<cleanVars, triVars, vecVars, meshVars>>

BreakAtTop_SinglePass ==
    \/ mode = 1 /\ i > 2
    \/ mode = 0 /\ i > 0
    \/ mode = 2

BreakAtTop_ModeTwoFallsThrough ==
    \/ mode = 1 /\ i > 2
    \/ mode = 0 /\ new_order = order

BreakAtTop_FourPasses ==
    \/ mode = 1 /\ i > 3
    \/ mode = 0 /\ new_order = order
    \/ mode = 2

\* lines 376-385: the three exits at the head of the loop, else a new pass begins
BreakAtTop ==
    \/ mode = 1 /\ i > 2
    \/ mode = 0 /\ new_order = order
    \/ mode = 2

LoopTop ==
    /\ pc = "top"
    /\ IF BreakAtTop
       THEN /\ pc' = "done"
            /\ UNCHANGED <<scanpos, nodelist>>
       ELSE /\ pc' = "scan"
            /\ scanpos' = 1
            /\ nodelist' = <<>>
    /\ last' = NoCollapse
    /\ UNCHANGED <<G, G0, mode, order, new_order, i, saved, counts>>
    /\ UNCHANGED <<cleanVars, triVars, vecVars, meshVars>>

Collapse_LengthAsNode(g, n1, n2, length, radius) == AddEdge(g, n1, length, n2, radius)

Collapse_NoBridge(g, n1, n2, length, radius) == g

\* line 401: G.add_edge(n1, n2, weight=length, conductivity=radius)
Collapse(g, n1, n2, length, radius) == AddEdge(g, n1, n2, length, radius)

\* lines 386-403: one iteration of the for loop over G.nodes()
ScanNode ==
    /\ pc = "scan"
    /\ scanpos <= Len(G.nodes)
    /\ LET node == G.nodes[scanpos]
           neighbors == Neighbors(G, node)
       IN IF Len(neighbors) = 2
          THEN LET n1 == neighbors[1]
                   n2 == neighbors[2]
                   w1 == G.w[{node, n1}]
                   w2 == G.w[{node, n2}]
                   c1 == G.c[{node, n1}]
                   c2 == G.c[{node, n2}]
                   length == MergeLength(w1, w2)
                   radius == MergeRadius(c1, w1, c2, w2, length)
               IN /\ G' = Collapse(G, n1, n2, length, radius)
                  /\ nodelist' = IF MayMark(nodelist, n1, n2)
                                 THEN Append(nodelist, node) ELSE nodelist
                  /\ last' = [v |-> node, n1 |-> n1, n2 |-> n2, w1 |-> w1, w2 |-> w2,
                              c1 |-> c1, c2 |-> c2,
                              marked |-> MayMark(nodelist, n1, n2)]
          ELSE /\ UNCHANGED <<G, nodelist>>
               /\ last' = NoCollapse
    /\ scanpos' = scanpos + 1
    /\ UNCHANGED <<G0, mode, order, new_order, i, pc, saved, counts>>
    /\ UNCHANGED <<cleanVars, triVars, vecVars, meshVars>>

\* lines 410-414: the single-line hack, else the removal of every marked node.
\* nodelist[1] is a dict lookup of the key 1: a KeyError unless node 1 is marked.
HackApplies(nl, g) == Len(nl) = Len(g.nodes) - 1

StopsAtBottom_Never(o, n) == FALSE

\* lines 421-422: if order == new_order: break
StopsAtBottom(o, n) == o = n

\* lines 410-422: the end of a pass
FinishPass ==
    /\ pc = "scan"
    /\ scanpos > Len(G.nodes)
    /\ last' = NoCollapse
    /\ IF HackApplies(nodelist, G) /\ 1 \notin Range(nodelist)
       THEN /\ pc' = "KeyError"
            /\ UNCHANGED <<G, order, new_order, i, counts>>
       ELSE /\ G' = IF HackApplies(nodelist, G)
                    THEN RemoveNode(G, 1)
                    ELSE RemoveNodes(G, nodelist)
            /\ order' = new_order
            /\ new_order' = Order(G')
            /\ i' = i + 1
            /\ counts' = Append(counts, Order(G'))
            /\ pc' = IF StopsAtBottom(order', new_order') THEN "done" ELSE "top"
    /\ UNCHANGED <<G0, mode, scanpos, nodelist, saved>>
    /\ UNCHANGED <<cleanVars, triVars, vecVars, meshVars>>

----------------------------------------------------------------------------
(* Specification Spec: removeRedundantNodes, in every mode, on every      *)
(* labelled simple graph of at most MaxNodes nodes as createGraph builds  *)
(* it (node k at x = k units of length 1.0, radius k).                    *)

LineX(n) == [k \in 0 .. (n - 1) |-> k * Unit]
IdR(n) == [k \in 0 .. (n - 1) |-> k]

IdleTri ==
    /\ triangles = <<>>
    /\ shared = {}
    /\ triangulation = <<>>
    /\ ttype = <<>>
    /\ pruning = 0
    /\ round = 0

IdleVec ==
    /\ slices = <<>>
    /\ sidx = 0
    /\ called = <<>>
    /\ persisted = <<>>

IdleMesh ==
    /\ raw_contours = <<>>
    /\ flattened_contours = <<>>
    /\ longuest_index = -1
    /\ mesh_points = <<>>
    /\ mesh_facets = <<>>
    /\ hole_points = <<>>

\* no call of removeRedundantNodes or drawAndSave is under way
IdleRrn ==
    /\ G = EmptyGraph
    /\ G0 = EmptyGraph
    /\ mode = 0
    /\ order = 0
    /\ new_order = 0
    /\ i = 0
    /\ scanpos = 0
    /\ nodelist = <<>>
    /\ last = NoCollapse
    /\ saved = NotSaved
    /\ counts = <<>>

IdleClean ==
    /\ redundancy = 0
    /\ written = <<>>

\* the state at a call (pc = "start") of removeRedundantNodes(g, verbose, m), or of
\* drawAndSave(g, ...) (pc = "save")
InitAt(g, m, at) ==
    /\ G = g
    /\ G0 = g
    /\ mode = m
    /\ order = 0
    /\ new_order = 0
    /\ i = 0
    /\ pc = at
    /\ scanpos = 0
    /\ nodelist = <<>>
    /\ last = NoCollapse
    /\ saved = NotSaved
    /\ counts = <<>>
    /\ IdleClean
    /\ IdleTri
    /\ IdleVec
    /\ IdleMesh

InitAnyGraph(modes, at) ==
    \E n \in 0 .. MaxNodes : \E E \in SUBSET Pairs(0 .. (n - 1)) : \E m \in modes :
        InitAt(createGraph(n, E, LineX(n), IdR(n)), m, at)

Init == InitAnyGraph(Modes, "start")

Next == Enter \/ LoopTop \/ ScanNode \/ FinishPass

Spec == Init /\ [][Next]_vars

\* The function is one sequential thread: whenever a next statement exists
\* the interpreter executes it, which is weak fairness of the whole of Next.
MaxLiveNodes == 4

InitLive ==
    \E n \in 0 .. MaxLiveNodes : \E E \in SUBSET Pairs(0 .. (n - 1)) : \E m \in {0, 1} :
        InitAt(createGraph(n, E, LineX(n), IdR(n)), m, "start")

SpecLive == InitLive /\ [][Next]_vars /\ WF_vars(Next)

----------------------------------------------------------------------------
(* Specification SpecMerge: removeRedundantNodes in modes 0 and 1 on every *)
(* graph over three nodes, with every placement of the three centres on    *)
(* 0..MaxX units (coincident centres give weight 0, neighbouring ones a     *)
(* weight below 1.0) and every radius in 0..MaxR.                           *)

MergeNodeIds == {0, 1, 2}

InitMerge ==
    \E E \in SUBSET Pairs(MergeNodeIds) :
    \E xs \in [MergeNodeIds -> 0 .. MaxX] :
    \E rs \in [MergeNodeIds -> 0 .. MaxR] :
    \E m \in {0, 1} :
        InitAt(createGraph(Cardinality(MergeNodeIds), E, xs, rs), m, "start")

SpecMerge == InitMerge /\ [][Next]_vars

----------------------------------------------------------------------------
(* Specification SpecY: removeRedundantNodes in mode 0 on every Y-shaped   *)
(* tree of at most MaxYNodes nodes (one junction, three arms of any        *)
(* length), under every numbering of its nodes.                            *)

RECURSIVE Perms(_)
Perms(S) ==
    IF S = {} THEN {<<>>}
    ELSE UNION {{<<x>> \o p : p \in Perms(S \ {x})} : x \in S}

\* the arm that starts at the junction (position 1 of the numbering) and runs through
\* the positions first .. first+len-1
ArmEdges(num, first, len) ==
    {{num[1], num[first]}} \cup {{num[k], num[k + 1]} : k \in first .. (first + len - 2)}

YEdges(num, a, b) ==
    ArmEdges(num, 2, a) \cup ArmEdges(num, 2 + a, b)
        \cup ArmEdges(num, 2 + a + b, Len(num) - 1 - a - b)

InitY ==
    \E n \in 4 .. MaxYNodes :
    \E num \in Perms(0 .. (n - 1)) :
    \E a \in 1 .. (n - 3) :
    \E b \in 1 .. (n - 2 - a) :
        InitAt(createGraph(n, YEdges(num, a, b), LineX(n), IdR(n)), 0, "start")

SpecY == InitY /\ [][Next]_vars

----------------------------------------------------------------------------
(* drawAndSave: the largest connected component is what gets written *)

\* networkx _plain_bfs: the nodes reachable from the nodes of S
RECURSIVE Reach(_, _)
Reach(g, S) ==
    LET T == S \cup {v \in NodeSet(g) : \E u \in S : {u, v} \in EdgeSet(g)}
    IN IF T = S THEN S ELSE Reach(g, T)

\* nx.connected_components: the components in the order in which the iteration over
\* G's nodes first meets one of their nodes
RECURSIVE ComponentsFrom(_, _, _)
ComponentsFrom(g, k, seen) ==
    IF k > Len(g.nodes) THEN <<>>
    ELSE IF g.nodes[k] \in seen THEN ComponentsFrom(g, k + 1, seen)
    ELSE LET comp == Reach(g, {g.nodes[k]})
         IN <<comp>> \o ComponentsFrom(g, k + 1, seen \cup comp)

connected_components(g) == ComponentsFrom(g, 1, {})

\* G.subgraph(c).copy()
Subgraph(g, comp) ==
    LET keep == {e \in DOMAIN g.w : e \subseteq comp}
    IN [nodes |-> SelectSeq(g.nodes, LAMBDA u : u \in comp),
        adj |-> [u \in comp |-> g.adj[u]],
        w |-> [y \in keep |-> g.w[y]],
        c |-> [y \in keep |-> g.c[y]],
        x |-> [u \in DOMAIN g.x \cap comp |-> g.x[u]],
        r |-> [u \in DOMAIN g.r \cap comp |-> g.r[u]]]

\* sorted(..., key=len, reverse=True): a stable sort, so components of equal size keep
\* their order of discovery
RECURSIVE InsertByLen(_, _)
InsertByLen(sorted, comp) ==
    IF sorted = <<>> THEN <<comp>>
    ELSE IF Cardinality(Head(sorted)) >= Cardinality(comp)
         THEN <<Head(sorted)>> \o InsertByLen(Tail(sorted), comp)
         ELSE <<comp>> \o sorted

RECURSIVE SortFrom(_, _, _)
SortFrom(comps, k, acc) ==
    IF k > Len(comps) THEN acc ELSE SortFrom(comps, k + 1, InsertByLen(acc, comps[k]))

SortedByLenAscending(comps) ==
    LET d == SortFrom(comps, 1, <<>>) IN [k \in 1 .. Len(d) |-> d[Len(d) + 1 - k]]

SortedByLenDescending(comps) == SortFrom(comps, 1, <<>>)

\* lines 552-553 and 567-569: Gcc[0] of an empty list is an IndexError
DrawAndSave ==
    /\ pc = "save"
    /\ LET Gcc == SortedByLenDescending(connected_components(G))
       IN IF Gcc = <<>>
          THEN /\ pc' = "IndexError"
               /\ UNCHANGED <<G, saved, written>>
          ELSE /\ G' = Subgraph(G, Gcc[1])
               /\ saved' = G'
               /\ written' = Append(written, G')
               /\ pc' = "saved"
    /\ UNCHANGED <<G0, mode, order, new_order, i, scanpos, nodelist, last, counts>>
    /\ UNCHANGED <<redundancy, triVars, vecVars, meshVars>>

\* Specification SpecSave: drawAndSave on every labelled simple graph of at most
\* MaxNodes nodes
InitSave == InitAnyGraph({2}, "save")

NextSave == DrawAndSave

SpecSave == InitSave /\ [][NextSave]_vars

----------------------------------------------------------------------------
(* cleanAndSaveGraph: what is simplified and written for each value of the *)
(* redundancy parameter                                                    *)

Redundancies == {0, 1, 2}

\* Vectorisation.py lines 446-466: the three tests on redundancy.  2 hands G to
\* drawAndSave as it is, 1 and 0 call removeRedundantNodes in mode 1 and mode 0;
\* at most one of the three tests holds
CleanDispatch ==
    /\ pc = "clean"
    /\ IF redundancy = 2 THEN pc' = "save" /\ mode' = mode
       ELSE IF redundancy = 1 THEN pc' = "start" /\ mode' = 1
       ELSE IF redundancy = 0 THEN pc' = "start" /\ mode' = 0
       ELSE pc' = "returned" /\ mode' = mode
    /\ UNCHANGED <<G, G0, order, new_order, i, scanpos, nodelist, last, saved, counts>>
    /\ UNCHANGED <<cleanVars, triVars, vecVars, meshVars>>

\* lines 458-460 and 463-465: removeRedundantNodes has returned, its result goes to
\* drawAndSave
SaveSimplified ==
    /\ pc = "done"
    /\ pc' = "save"
    /\ UNCHANGED <<rrnVars, cleanVars, triVars, vecVars, meshVars>>

\* Specification SpecClean: cleanAndSaveGraph on every labelled simple graph of at
\* most MaxNodes nodes, for every redundancy
InitClean ==
    /\ \E n \in 0 .. MaxNodes : \E E \in SUBSET Pairs(0 .. (n - 1)) :
          /\ G = createGraph(n, E, LineX(n), IdR(n))
          /\ G0 = G
    /\ redundancy \in Redundancies
    /\ written = <<>>
    /\ mode = 0
    /\ order = 0
    /\ new_order = 0
    /\ i = 0
    /\ pc = "clean"
    /\ scanpos = 0
    /\ nodelist = <<>>
    /\ last = NoCollapse
    /\ saved = NotSaved
    /\ counts = <<>>
    /\ IdleTri
    /\ IdleVec
    /\ IdleMesh

NextClean ==
    \/ CleanDispatch \/ Enter \/ LoopTop \/ ScanNode \/ FinishPass
    \/ SaveSimplified \/ DrawAndSave

SpecClean == InitClean /\ [][NextClean]_vars

----------------------------------------------------------------------------
(* Triangle classification, pruning and graph build.  A triangulation is   *)
(* its triangles 0..n-1 and the pairs of them that share an edge; an edge  *)
(* belongs to at most two triangles, so a triangle has at most 3           *)
(* neighbours.                                                             *)

SharedCount(t, alive, sh) == Cardinality({u \in alive : u # t /\ {t, u} \in sh})

\* init_triangle_mesh: the type by the number of neighbours in the current list
TypeByCount(k) ==
    IF k = 3 THEN "junction"
    ELSE IF k = 2 THEN "normal"
    ELSE IF k = 1 THEN "end"
    ELSE "isolated"

Labels(alive, sh) == [t \in alive |-> TypeByCount(SharedCount(t, alive, sh))]

WithIsolated(list, types) == list

\* np.delete(np.asarray(triangles), isolated_indices)
WithoutIsolated(list, types) == SelectSeq(list, LAMBDA t : types[t] # "isolated")

\* Vectorisation.py lines 330-347: every triangle is typed, the isolated ones leave
TriangleClassification ==
    /\ pc = "classify"
    /\ LET types == Labels(Range(triangles), shared)
       IN /\ triangles' = WithoutIsolated(triangles, types)
          /\ ttype' = [t \in Range(triangles') |-> types[t]]
    /\ pc' = "prune"
    /\ UNCHANGED <<shared, triangulation, pruning, round>>
    /\ UNCHANGED <<rrnVars, cleanVars, vecVars, meshVars>>

PruneOrder_OneMore == pruning + 1

\* Vectorisation.py line 383 and net_utilities.py line 298: the pruning order P goes
\* to CbruteforcePruning as it is
PruneOrder == pruning

\* bruteforcePruning, one round: the triangles typed end leave the list and the rest
\* are typed again; `order` rounds at most, none once no end triangle is left
PruneRound ==
    /\ pc = "prune"
    /\ IF round < PruneOrder /\ \E t \in Range(triangles) : ttype[t] = "end"
       THEN /\ triangles' = SelectSeq(triangles, LAMBDA t : ttype[t] # "end")
            /\ ttype' = Labels(Range(triangles'), shared)
            /\ round' = round + 1
            /\ pc' = "prune"
       ELSE /\ pc' = "relabel"
            /\ UNCHANGED <<triangles, ttype, round>>
    /\ UNCHANGED <<shared, triangulation, pruning>>
    /\ UNCHANGED <<rrnVars, cleanVars, vecVars, meshVars>>

Relabel_DropsIsolated ==
    /\ pc = "relabel"
    /\ triangles' = SelectSeq(triangles,
                       LAMBDA t : Labels(Range(triangles), shared)[t] # "isolated")
    /\ ttype' = Labels(Range(triangles'), shared)
    /\ pc' = "build"
    /\ UNCHANGED <<shared, triangulation, pruning, round>>
    /\ UNCHANGED <<rrnVars, cleanVars, vecVars, meshVars>>

\* Vectorisation.py lines 392-402: the survivors are typed again (and only counted)
Relabel ==
    /\ pc = "relabel"
    /\ ttype' = Labels(Range(triangles), shared)
    /\ pc' = "build"
    /\ UNCHANGED <<triangles, shared, triangulation, pruning, round>>
    /\ UNCHANGED <<rrnVars, cleanVars, vecVars, meshVars>>

\* createTriangleAdjacencyMatrix: entry (a, b) is 1 iff the triangles at the list
\* positions a and b (0-based) share an edge
AdjacencyMatrix(list, sh) ==
    {e \in Pairs(0 .. (Len(list) - 1)) :
        \E a \in e : {list[a + 1], list[Other(e, a) + 1]} \in sh}

\* triangle.get_center().get_x() and triangle.get_radius(): triangle t has its centre
\* at x = t units of length 1.0 and the radius t
TriangleCenterX(t) == t * Unit
TriangleRadius(t) == t

\* Vectorisation.py lines 718-719: node k is the triangle at position k of the list
BuildGraph ==
    /\ pc = "build"
    /\ LET n == Len(triangles)
       IN G' = createGraph(n, AdjacencyMatrix(triangles, shared),
                           [k \in 0 .. (n - 1) |-> TriangleCenterX(triangles[k + 1])],
                           [k \in 0 .. (n - 1) |-> TriangleRadius(triangles[k + 1])])
    /\ G0' = G'
    /\ pc' = "built"
    /\ UNCHANGED <<mode, order, new_order, i, scanpos, nodelist, last, saved, counts>>
    /\ UNCHANGED <<cleanVars, triVars, vecVars, meshVars>>

\* Specification SpecTri: every triangulation of at most MaxTriangles triangles and
\* every pruning order up to MaxPruning
InitTri ==
    /\ \E n \in 0 .. MaxTriangles :
       \E sh \in SUBSET Pairs(0 .. (n - 1)) :
          /\ \A t \in 0 .. (n - 1) : SharedCount(t, 0 .. (n - 1), sh) <= 3
          /\ triangles = [k \in 1 .. n |-> k - 1]
          /\ triangulation = [k \in 1 .. n |-> k - 1]
          /\ shared = sh
          /\ ttype = [t \in 0 .. (n - 1) |-> "unset"]
    /\ pruning \in 0 .. MaxPruning
    /\ round = 0
    /\ pc = "classify"
    /\ IdleRrn
    /\ IdleClean
    /\ IdleVec
    /\ IdleMesh

NextTri == TriangleClassification \/ PruneRound \/ Relabel \/ BuildGraph

SpecTri == InitTri /\ [][NextTri]_vars

----------------------------------------------------------------------------
(* vectorize: the loop over the slices of an image.  A slice is its pixels *)
(* (uint8, 0 or 255) and whether triangle.build succeeds on its mesh.      *)

PixelValues == {0, 255}

RECURSIVE SeqSum(_)
SeqSum(q) == IF q = <<>> THEN 0 ELSE Head(q) + SeqSum(Tail(q))

IsNegativeSlice(sli) == SeqSum(sli.pixels) < 0

\* line 610: np.sum(sli) <= 0
IsEmptySlice(sli) == SeqSum(sli.pixels) <= 0

\* the graph the pipeline writes for a slice with foreground
SomeGraph == createGraph(2, {{0, 1}}, LineX(2), IdR(2))

\* line 595: the for loop takes the next slice, or the loop is over (lines 742-756)
NextSlice ==
    /\ pc = "loop"
    /\ IF sidx < Len(slices)
       THEN sidx' = sidx + 1 /\ pc' = "check"
       ELSE sidx' = sidx /\ pc' = "finished"
    /\ UNCHANGED <<slices, called, persisted>>
    /\ UNCHANGED <<rrnVars, cleanVars, triVars, meshVars>>

\* lines 609-620: an empty slice gets an empty graph written and the loop continues
EmptyCheck ==
    /\ pc = "check"
    /\ IF IsEmptySlice(slices[sidx])
       THEN /\ persisted' = [persisted EXCEPT ![sidx] = EmptyGraph]
            /\ pc' = "loop"
       ELSE /\ pc' = "createContours"
            /\ UNCHANGED persisted
    /\ UNCHANGED <<slices, sidx, called>>
    /\ UNCHANGED <<rrnVars, cleanVars, triVars, meshVars>>

\* lines 658-662
CreateContours ==
    /\ pc = "createContours"
    /\ called' = [called EXCEPT ![sidx] = Append(@, "createContours")]
    /\ pc' = "createMesh"
    /\ UNCHANGED <<slices, sidx, persisted>>
    /\ UNCHANGED <<rrnVars, cleanVars, triVars, meshVars>>

\* lines 672-673
CreateMesh ==
    /\ pc = "createMesh"
    /\ called' = [called EXCEPT ![sidx] = Append(@, "createMesh")]
    /\ pc' = "createTriangulation"
    /\ UNCHANGED <<slices, sidx, persisted>>
    /\ UNCHANGED <<rrnVars, cleanVars, triVars, meshVars>>

\* lines 683-684 and 304: an error raised by triangle.build is caught nowhere in
\* vectorize, so it ends the call
CreateTriangulation ==
    /\ pc = "createTriangulation"
    /\ called' = [called EXCEPT ![sidx] = Append(@, "createTriangulation")]
    /\ pc' = IF slices[sidx].triangulable THEN "triangleClassification" ELSE "raised"
    /\ UNCHANGED <<slices, sidx, persisted>>
    /\ UNCHANGED <<rrnVars, cleanVars, triVars, meshVars>>

\* lines 695-696
ClassifyTriangles ==
    /\ pc = "triangleClassification"
    /\ called' = [called EXCEPT ![sidx] = Append(@, "triangleClassification")]
    /\ pc' = "graphPruning"
    /\ UNCHANGED <<slices, sidx, persisted>>
    /\ UNCHANGED <<rrnVars, cleanVars, triVars, meshVars>>

\* lines 706-708
GraphPruning ==
    /\ pc = "graphPruning"
    /\ called' = [called EXCEPT ![sidx] = Append(@, "graphPruning")]
    /\ pc' = "createGraph"
    /\ UNCHANGED <<slices, sidx, persisted>>
    /\ UNCHANGED <<rrnVars, cleanVars, triVars, meshVars>>

\* lines 718-719
CreateGraph ==
    /\ pc = "createGraph"
    /\ called' = [called EXCEPT ![sidx] = Append(@, "createGraph")]
    /\ pc' = "cleanAndSaveGraph"
    /\ UNCHANGED <<slices, sidx, persisted>>
    /\ UNCHANGED <<rrnVars, cleanVars, triVars, meshVars>>

\* lines 730-732: the graph of the slice is written, the loop goes on
CleanAndSaveGraph ==
    /\ pc = "cleanAndSaveGraph"
    /\ called' = [called EXCEPT ![sidx] = Append(@, "cleanAndSaveGraph")]
    /\ persisted' = [persisted EXCEPT ![sidx] = SomeGraph]
    /\ pc' = "loop"
    /\ UNCHANGED <<slices, sidx>>
    /\ UNCHANGED <<rrnVars, cleanVars, triVars, meshVars>>

\* Specification SpecVec: every batch of at most MaxSlices slices
InitVec ==
    /\ \E n \in 0 .. MaxSlices :
          /\ slices \in [1 .. n -> [pixels : [1 .. SlicePixels -> PixelValues],
                                    triangulable : BOOLEAN]]
          /\ called = [k \in 1 .. n |-> <<>>]
          /\ persisted = [k \in 1 .. n |-> NotSaved]
    /\ sidx = 0
    /\ pc = "loop"
    /\ IdleRrn
    /\ IdleClean
    /\ IdleTri
    /\ IdleMesh

NextVec ==
    \/ NextSlice \/ EmptyCheck \/ CreateContours \/ CreateMesh \/ CreateTriangulation
    \/ ClassifyTriangles \/ GraphPruning \/ CreateGraph \/ CleanAndSaveGraph

SpecVec == InitVec /\ [][NextVec]_vars

----------------------------------------------------------------------------
(* createContours and createMesh.  A contour is its number of points and   *)
(* its shape.  The shape says what shapely answers for the (jittered)      *)
(* polygon of the contour: whether the mean of the points is within it,    *)
(* the angle phi (whole degrees) between its first two segments, and which *)
(* of the points cp + N * rotate(a, seg2), a in whole degrees, are within  *)
(* it: those with a in the arc lo .. lo+width-1 (mod 360).  np.asarray     *)
(* is the one of the numpy releases that turn a ragged list into an array  *)
(* of lists.                                                               *)

ContourThreshold == 3   \* Vectorisation.py line 227: thresholdContours(..., 3)
SweepEnd == 361         \* net_utilities.py lines 237 and 264: angle < 361
MaxContours == 3        \* SpecMesh: largest number of raw contours

ContourLengths == {3, 4, 5}

Shapes ==
    {[centerWithin |-> TRUE,  phi |-> 90,  lo |-> 0,   width |-> 90],
     [centerWithin |-> FALSE, phi |-> 90,  lo |-> 0,   width |-> 90],
     [centerWithin |-> FALSE, phi |-> 90,  lo |-> 270, width |-> 90],
     [centerWithin |-> FALSE, phi |-> 180, lo |-> 0,   width |-> 180],
     [centerWithin |-> FALSE, phi |-> 90,  lo |-> 100, width |-> 50],
     [centerWithin |-> FALSE, phi |-> 90,  lo |-> 0,   width |-> 0]}

\* test_point.within(poly) for the point at the rotation angle a
Within(shape, a) == ((a + 360 - shape.lo) % 360) < shape.width

\* lines 221-222 and 248: the first candidate, the rotation of seg2 by phi/2 (for
\* phi = 180, cp - N*rotate(90, seg2), which is cp + N*rotate(270, seg2))
FirstAngle(phi) == IF phi = 180 THEN 270 ELSE phi \div 2

\* lines 226-227 and 253-254: the second candidate, on the other side
SecondAngle(phi) == IF phi = 180 THEN 90 ELSE (360 - phi \div 2) % 360

Sweep_LastInside(shape) ==
    LET tested == 0 .. (SweepEnd - 1)
    IN IF \E a \in tested : Within(shape, a)
       THEN CHOOSE a \in tested :
                Within(shape, a) /\ \A b \in (a + 1) .. (SweepEnd - 1) : ~Within(shape, b)
       ELSE SweepEnd - 1

\* lines 236-244 and 263-271: the sweep from angle 0 in steps of one degree, while
\* no tested point is within the polygon and angle < 361; the value is the last angle
\* tested, within the polygon or not
Sweep(shape) ==
    LET tested == 0 .. (SweepEnd - 1)
    IN IF \E a \in tested : Within(shape, a)
       THEN CHOOSE a \in tested :
                Within(shape, a) /\ \A b \in 0 .. (a - 1) : ~Within(shape, b)
       ELSE SweepEnd - 1

\* net_utilities.py lines 163-272
getInteriorPoint(shape) ==
    IF shape.centerWithin THEN [kind |-> "center"]
    ELSE IF Within(shape, FirstAngle(shape.phi))
         THEN [kind |-> "circle", angle |-> FirstAngle(shape.phi)]
    ELSE IF Within(shape, SecondAngle(shape.phi))
         THEN [kind |-> "circle", angle |-> SecondAngle(shape.phi)]
    ELSE [kind |-> "circle", angle |-> Sweep(shape)]

\* thresholdContours: the contours with more than threshold points, in order
thresholdContours(cs, threshold) == SelectSeq(cs, LAMBDA c : c.len > threshold)

\* Vectorisation.py lines 233-239: the position (0-based) of the first contour that
\* is longer than every contour before it; -1 stands for the unbound local
RECURSIVE LonguestFrom(_, _, _, _)
LonguestFrom(cs, c, longuest_length, index) ==
    IF c >= Len(cs) THEN index
    ELSE IF cs[c + 1].len > longuest_length
         THEN LonguestFrom(cs, c + 1, cs[c + 1].len, c)
         ELSE LonguestFrom(cs, c + 1, longuest_length, index)

\* roundTripConnect(start, end)
roundTripConnect(start, end) ==
    [k \in 1 .. (end - start) |-> <<start + k - 1, start + k>>] \o <<<<end, start>>>>

ContourPoints(cs, c) == [j \in 1 .. cs[c + 1].len |-> <<c, j - 1>>]

\* np.asarray(flattened_contours): contours of one common length make a float array
\* of three dimensions, whose rows are arrays and have no extend
IsRegularArray(cs) == \A a, b \in 1 .. Len(cs) : cs[a].len = cs[b].len

IsOuter_OffByOne(c, longuest) == c = longuest + 1

\* line 269: if(i == longuest_index)
IsOuter(c, longuest) == c = longuest

\* lines 267-277: the loop over the contours from position c on
RECURSIVE MeshFrom(_, _, _, _)
MeshFrom(cs, c, longuest, acc) ==
    IF c >= Len(cs) THEN acc
    ELSE IF IsOuter(c, longuest) THEN MeshFrom(cs, c + 1, longuest, acc)
    ELSE LET curr_length == Len(acc.points)
             points == acc.points \o ContourPoints(cs, c)
         IN MeshFrom(cs, c + 1, longuest,
                [points |-> points,
                 facets |-> acc.facets \o roundTripConnect(curr_length, Len(points) - 1),
                 holes |-> Append(acc.holes,
                                  [contour |-> c,
                                   point |-> getInteriorPoint(cs[c + 1].shape)])])

\* Vectorisation.py lines 219-241
createContours ==
    /\ pc = "createContours"
    /\ flattened_contours' = thresholdContours(raw_contours, ContourThreshold)
    /\ longuest_index' = LonguestFrom(flattened_contours', 0, 0, -1)
    /\ pc' = IF longuest_index' = -1 THEN "UnboundLocalError" ELSE "createMesh"
    /\ UNCHANGED <<raw_contours, mesh_points, mesh_facets, hole_points>>
    /\ UNCHANGED <<rrnVars, cleanVars, triVars, vecVars>>

\* Vectorisation.py lines 257-279
createMesh ==
    /\ pc = "createMesh"
    /\ LET cs == flattened_contours
           outer == ContourPoints(cs, longuest_index)
           mesh == MeshFrom(cs, 0, longuest_index,
                            [points |-> outer,
                             facets |-> roundTripConnect(0, Len(outer) - 1),
                             holes |-> <<>>])
       IN IF IsRegularArray(cs) /\ \E c \in 0 .. (Len(cs) - 1) : ~IsOuter(c, longuest_index)
          THEN /\ pc' = "AttributeError"
               /\ UNCHANGED <<mesh_points, mesh_facets, hole_points>>
          ELSE /\ pc' = "meshed"
               /\ mesh_points' = mesh.points
               /\ mesh_facets' = mesh.facets
               /\ hole_points' = mesh.holes
    /\ UNCHANGED <<raw_contours, flattened_contours, longuest_index>>
    /\ UNCHANGED <<rrnVars, cleanVars, triVars, vecVars>>

\* Specification SpecMesh: createContours and createMesh on every list of at most
\* MaxContours raw contours
InitMesh ==
    /\ \E n \in 0 .. MaxContours :
          raw_contours \in [1 .. n -> [len : ContourLengths, shape : Shapes]]
    /\ flattened_contours = <<>>
    /\ longuest_index = -1
    /\ mesh_points = <<>>
    /\ mesh_facets = <<>>
    /\ hole_points = <<>>
    /\ pc = "createContours"
    /\ IdleRrn
    /\ IdleClean
    /\ IdleTri
    /\ IdleVec

NextMesh == createContours \/ createMesh

SpecMesh == InitMesh /\ [][NextMesh]_vars

----------------------------------------------------------------------------
(* Graph shapes used by the properties *)

Connected(g) == Order(g) = 0 \/ Reach(g, {g.nodes[1]}) = NodeSet(g)

IsSingleCycle(g) ==
    /\ Order(g) >= 3
    /\ Connected(g)
    /\ \A u \in NodeSet(g) : Degree(g, u) = 2

IsPath(g) ==
    /\ Order(g) >= 2
    /\ Connected(g)
    /\ Cardinality(EdgeSet(g)) = Order(g) - 1
    /\ \A u \in NodeSet(g) : Degree(g, u) <= 2

Leaves(g) == {u \in NodeSet(g) : Degree(g, u) = 1}

\* the adjacency dicts and the edge attributes describe the same simple graph
WellFormed(g) ==
    /\ DOMAIN g.adj = NodeSet(g)
    /\ DOMAIN g.c = DOMAIN g.w
    /\ \A e \in DOMAIN g.w : Cardinality(e) = 2 /\ e \subseteq NodeSet(g)
    /\ \A u \in NodeSet(g) :
          /\ Range(g.adj[u]) = {v \in NodeSet(g) : {u, v} \in DOMAIN g.w}
          /\ Len(g.adj[u]) = Cardinality(Range(g.adj[u]))

----------------------------------------------------------------------------
(* Properties *)

\* C1: a collapse of v between n1 and n2 leaves on the edge n1-n2 the weight
\* w(v,n1) + w(v,n2), also when both incident weights are 0.
C1_WeightIsSum ==
    last # NoCollapse => G.w[{last.n1, last.n2}] = last.w1 + last.w2

\* C2: a collapse leaves on the edge n1-n2 the conductivity
\* (c1*w1 + c2*w2) / max(w1 + w2, 1): the denominator is floored at 1.0 whenever
\* the summed weight is below 1.0.
C2_FlooredAtOne ==
    last # NoCollapse =>
        LET sum == last.w1 + last.w2
            den == IF sum < Unit THEN Unit ELSE sum
            cd == G.c[{last.n1, last.n2}]
        IN cd[1] * last.c1[2] * last.c2[2] * den
             = cd[2] * (last.c1[1] * last.w1 * last.c2[2] + last.c2[1] * last.w2 * last.c1[2])

\* C2 (amended): a collapse leaves on the edge n1-n2 the conductivity
\* (c1*w1 + c2*w2) / d, where d is w1 + w2 when that sum is not 0 and 1.0 when
\* it is exactly 0; d is never 0, so no division by zero occurs.
C2_FlooredOnlyAtZero ==
    last # NoCollapse =>
        LET sum == last.w1 + last.w2
            den == IF sum = 0 THEN Unit ELSE sum
            cd == G.c[{last.n1, last.n2}]
        IN /\ den # 0
           /\ cd[2] > 0
           /\ cd[1] * last.c1[2] * last.c2[2] * den
                = cd[2] * (last.c1[1] * last.w1 * last.c2[2] + last.c2[1] * last.w2 * last.c1[2])

\* a collapse of a node whose two weights sum to less than 1.0 but not to 0, with a
\* conductivity that is not 0, has just happened
C2_Witness ==
    /\ last # NoCollapse
    /\ last.w1 + last.w2 > 0
    /\ last.w1 + last.w2 < Unit
    /\ G.c[{last.n1, last.n2}][1] > 0

\* C3: when mode 0 returns, no node of the returned graph has degree 2, for every
\* input graph that is not a single cycle.
C3_NoDegreeTwoLeft ==
    (pc = "done" /\ mode = 0 /\ ~IsSingleCycle(G0)) =>
        \A u \in NodeSet(G) : Degree(G, u) # 2

\* mode 0 has returned after at least two passes on an input with degree-2 nodes
C3_Witness ==
    /\ pc = "done"
    /\ mode = 0
    /\ ~IsSingleCycle(G0)
    /\ \E u \in NodeSet(G0) : Degree(G0, u) = 2
    /\ i >= 2
    /\ Order(G) < Order(G0)

\* C4: on a simple path of N >= 2 nodes, mode 0 returns the two path endpoints,
\* both of degree 1, joined by one edge whose weight is the sum of the path's weights.
C4_PathBecomesOneEdge ==
    (pc = "done" /\ mode = 0 /\ IsPath(G0)) =>
        /\ Order(G) = 2
        /\ NodeSet(G) = Leaves(G0)
        /\ \A u \in NodeSet(G) : Degree(G, u) = 1
        /\ Cardinality(EdgeSet(G)) = 1
        /\ \A e \in EdgeSet(G) : G.w[e] = SumOver(G0.w, EdgeSet(G0))

\* C8: removeRedundantNodes raises no error in modes 0 and 1, on any graph, the
\* empty graph and the single-node graph included.
C8_NoError ==
    mode \in {0, 1} => pc # "KeyError"

IsYTree(g) ==
    /\ Connected(g)
    /\ Cardinality(EdgeSet(g)) = Order(g) - 1
    /\ Cardinality({u \in NodeSet(g) : Degree(g, u) = 3}) = 1
    /\ Cardinality(Leaves(g)) = 3
    /\ \A u \in NodeSet(g) : Degree(g, u) \in {1, 2, 3}

\* C5: on a Y-shaped tree, mode 0 returns exactly 4 nodes: the original junction with
\* degree 3 and the three original leaves with degree 1.
C5_YBecomesFourNodes ==
    (pc = "done" /\ mode = 0 /\ IsYTree(G0)) =>
        /\ Order(G) = 4
        /\ NodeSet(G) = Leaves(G0) \cup {u \in NodeSet(G0) : Degree(G0, u) = 3}
        /\ \A u \in NodeSet(G) : Degree(G, u) = Degree(G0, u)

\* mode 0 has returned, after three passes or more, on a Y-shaped tree of six nodes
C5_Witness ==
    /\ pc = "done"
    /\ mode = 0
    /\ IsYTree(G0)
    /\ Order(G0) >= 6
    /\ Order(G) = 4
    /\ i >= 3

\* a non-empty set of nodes that no edge leaves
Closed(g, C) == \A e \in EdgeSet(g) : (e \cap C # {}) => e \subseteq C

\* the connected components, stated without a search: the minimal closed sets
IsComponent(g, C) ==
    /\ C # {}
    /\ C \subseteq NodeSet(g)
    /\ Closed(g, C)
    /\ \A D \in SUBSET C : (D # {} /\ D # C) => ~Closed(g, D)

ComponentSets(g) == {C \in SUBSET NodeSet(g) : IsComponent(g, C)}

\* the place in the iteration over g's nodes at which the component C is discovered
Discovered(g, C) == CHOOSE k \in 1 .. Len(g.nodes) :
    g.nodes[k] \in C /\ \A j \in 1 .. (k - 1) : g.nodes[j] \notin C

\* C10: for a graph with at least 2 connected components, the graph drawAndSave
\* persists is exactly the component with the most nodes, among several of that size
\* the one discovered earliest; the persisted graph is connected.
C10_LargestComponentSaved ==
    (pc = "saved" /\ Cardinality(ComponentSets(G0)) >= 2) =>
        LET S == NodeSet(saved)
        IN /\ IsComponent(G0, S)
           /\ \A D \in ComponentSets(G0) :
                 /\ Cardinality(D) <= Cardinality(S)
                 /\ (Cardinality(D) = Cardinality(S) /\ D # S)
                        => Discovered(G0, S) < Discovered(G0, D)
           /\ EdgeSet(saved) = {e \in EdgeSet(G0) : e \subseteq S}
           /\ \A e \in EdgeSet(saved) : saved.w[e] = G0.w[e] /\ saved.c[e] = G0.c[e]
           /\ IsComponent(saved, S)

\* a graph of three components or more has been saved: two of them tie for the most
\* nodes, and the component discovered first (the one of node 0) is a smaller one
C10_Witness ==
    /\ pc = "saved"
    /\ Cardinality(ComponentSets(G0)) >= 3
    /\ \E D \in ComponentSets(G0) :
          D # NodeSet(saved) /\ Cardinality(D) = Cardinality(NodeSet(saved))
    /\ \E D \in ComponentSets(G0) : Cardinality(D) < Cardinality(NodeSet(saved))
    /\ 0 \notin NodeSet(saved)

\* the slices the loop is through with
Handled(k) == k < sidx \/ (k = sidx /\ pc \in {"loop", "finished"})

\* C6: for an all-zero slice vectorize persists a graph with 0 nodes and 0 edges,
\* calls neither createContours nor any later stage for it, and goes on to the next
\* slice.
C6_EmptySliceShortCircuits ==
    \A k \in 1 .. Len(slices) :
        ((k < sidx \/ (k = sidx /\ pc # "check")) /\ SeqSum(slices[k].pixels) = 0) =>
            /\ Handled(k)
            /\ persisted[k] # NotSaved
            /\ Order(persisted[k]) = 0
            /\ EdgeSet(persisted[k]) = {}
            /\ called[k] = <<>>

\* an all-zero slice has been handled and the slice after it has reached its pipeline
C6_Witness ==
    /\ Len(slices) >= 2
    /\ SeqSum(slices[1].pixels) = 0
    /\ persisted[1] = EmptyGraph
    /\ sidx = 2
    /\ called[2] # <<>>

\* C7: when createTriangulation raises on a slice, vectorize gives up that slice only:
\* every later slice of the batch is still processed and its graph persisted.
C7_LaterSlicesPersisted ==
    pc \in {"finished", "raised"} =>
        \A j \in 1 .. Len(slices) :
            ("createTriangulation" \in Range(called[j]) /\ ~slices[j].triangulable) =>
                \A k \in (j + 1) .. Len(slices) : persisted[k] # NotSaved

\* C9: every node of the graph createGraph builds from the pruned, re-labelled
\* triangles has degree at least 1, for every pruning order, and no two nodes are
\* joined by more than one edge.
C9_NoIsolatedNode ==
    pc = "built" =>
        /\ \A u \in NodeSet(G) : Degree(G, u) >= 1
        /\ \A u \in NodeSet(G) : Cardinality(Range(G.adj[u])) = Len(G.adj[u])

\* C11: when cleanAndSaveGraph has returned, it has written one graph for
\* redundancy 0 (without redundant nodes), two graphs for redundancy 1 (the
\* half-simplified one and the one without redundant nodes) and three graphs for
\* redundancy 2 (all redundant nodes, half of them, none of them).
C11_GraphsPerRedundancy ==
    pc = "saved" =>
        /\ redundancy = 0 => Len(written) = 1
        /\ redundancy = 1 => Len(written) = 2
        /\ redundancy = 2 => (Len(written) = 3 /\ NodeSet(written[1]) \subseteq NodeSet(G0))

\* the number of triangles of the triangulation that share an edge with t
SharedInTriangulation(t) ==
    Cardinality({u \in Range(triangulation) : u # t /\ {t, u} \in shared})

\* C12: triangleClassification types each triangle by the number of its edges shared
\* with another triangle of the list (3 junction, 2 normal, 1 end, 0 isolated) and
\* returns the list without the isolated ones, so that no isolated triangle of the
\* triangulation is a node of the graph createGraph builds.
C12_IsolatedLeaveTheList ==
    /\ (pc = "prune" /\ round = 0) =>
          \A t \in Range(triangulation) :
             LET k == SharedInTriangulation(t)
             IN IF k = 0 THEN t \notin Range(triangles)
                ELSE /\ t \in Range(triangles)
                     /\ k = 3 => ttype[t] = "junction"
                     /\ k = 2 => ttype[t] = "normal"
                     /\ k = 1 => ttype[t] = "end"
    /\ pc = "built" =>
          /\ Order(G) = Len(triangles)
          /\ \A t \in Range(triangulation) :
                SharedInTriangulation(t) = 0 => t \notin Range(triangles)

\* a graph has been built from a triangulation with an isolated triangle and a
\* junction triangle
C12_Witness ==
    /\ pc = "built"
    /\ \E t \in Range(triangulation) : SharedInTriangulation(t) = 0
    /\ \E t \in Range(triangulation) : SharedInTriangulation(t) = 3
    /\ Order(G) >= 1

\* C13: with pruning order P = 0 the pruning returns exactly the list it was given,
\* the triangulation's triangles without the isolated ones, in the same order.
C13_ZeroOrderKeepsAll ==
    (pruning = 0 /\ pc \in {"relabel", "build", "built"}) =>
        triangles = SelectSeq(triangulation, LAMBDA t : SharedInTriangulation(t) # 0)

\* pruning with P = 0 has returned a list that holds an end triangle, from a
\* triangulation that also had an isolated triangle
C13_Witness ==
    /\ pruning = 0
    /\ pc = "relabel"
    /\ \E t \in Range(triangles) : SharedInTriangulation(t) = 1
    /\ Len(triangles) < Len(triangulation)

\* C14: mode 2 returns the graph unchanged: the same node set, the same edge set,
\* and on every edge the same weight and the same conductivity.
C14_ModeTwoChangesNothing ==
    (pc = "done" /\ mode = 2) =>
        /\ NodeSet(G) = NodeSet(G0)
        /\ EdgeSet(G) = EdgeSet(G0)
        /\ \A e \in EdgeSet(G0) : G.w[e] = G0.w[e] /\ G.c[e] = G0.c[e]

\* mode 2 has returned on a graph that has a node of degree 2
C14_Witness ==
    /\ pc = "done"
    /\ mode = 2
    /\ \E u \in NodeSet(G0) : Degree(G0, u) = 2
    /\ Order(G) >= 3

\* C15: mode 1 returns after exactly 3 collapse passes, or after fewer than 3 when one
\* of the passes it ran left the node count as it was before that pass; never after
\* more than 3.
C15_HalfModeThreePasses ==
    (pc = "done" /\ mode = 1) =>
        LET passes == Len(counts) - 1
        IN /\ passes = i
           /\ passes <= 3
           /\ passes < 3 => \E k \in 1 .. passes : counts[k + 1] = counts[k]

\* mode 1 has returned after three passes, each of which removed a node
C15_Witness ==
    /\ pc = "done"
    /\ mode = 1
    /\ i = 3
    /\ Len(counts) = 4
    /\ \A k \in 1 .. 3 : counts[k + 1] < counts[k]

\* C16: no step of a collapse pass adds a node, in any mode: the node set after a
\* pass is a subset of the node set before it, and the node count never grows.
C16_PassNeverAddsNodes ==
    [][NodeSet(G') \subseteq NodeSet(G) /\ Order(G') <= Order(G)]_vars

\* a pass that collapsed two nodes or more has ended in a mode other than 0 and 1,
\* and the graph has lost nodes
C16_Witness ==
    /\ mode = 3
    /\ i >= 1
    /\ Len(nodelist) >= 2
    /\ NodeSet(G) \subseteq NodeSet(G0)
    /\ Order(G) < Order(G0)

\* the point a hole marker stands for is within the polygon of the contour
IsInside(shape, point) ==
    IF point.kind = "center" THEN shape.centerWithin ELSE Within(shape, point.angle)

MarkersOf(c) == {h \in 1 .. Len(hole_points) : hole_points[h].contour = c}

\* C17: in the mesh createMesh builds from k >= 1 surviving contours, one contour of
\* maximal point count is the outer boundary and has no hole marker, and each of the
\* other k-1 contours has exactly one hole marker: k-1 hole markers in all.
C17_OneMarkerPerInnerContour ==
    pc = "meshed" =>
        LET k == Len(flattened_contours)
            outer == longuest_index
        IN /\ k >= 1
           /\ outer \in 0 .. (k - 1)
           /\ \A c \in 1 .. k : flattened_contours[c].len <= flattened_contours[outer + 1].len
           /\ MarkersOf(outer) = {}
           /\ \A c \in 0 .. (k - 1) : c # outer => Cardinality(MarkersOf(c)) = 1
           /\ Len(hole_points) = k - 1
           /\ Len(mesh_facets) = Len(mesh_points)

\* a mesh has been built from three surviving contours, two of which tie for the
\* most points and come before a shorter one
C17_Witness ==
    /\ pc = "meshed"
    /\ Len(flattened_contours) = 3
    /\ flattened_contours[1].len = flattened_contours[2].len
    /\ flattened_contours[3].len < flattened_contours[1].len
    /\ Len(hole_points) = 2

\* C18: every hole marker createMesh records lies strictly inside the contour it was
\* computed for, whatever the contour's shape and winding order.
C18_MarkerInsideContour ==
    pc = "meshed" =>
        \A h \in 1 .. Len(hole_points) :
            IsInside(flattened_contours[hole_points[h].contour + 1].shape,
                     hole_points[h].point)

\* C19: createGraph makes one node per surviving triangle, with the triangle's
\* position in the list (0..N-1) as id and the triangle's radius as conductivity, one
\* undirected edge per pair of survivors that share an edge, and gives each edge the
\* arithmetic mean of its two endpoints' conductivities.
C19_GraphOfSurvivors ==
    pc = "built" =>
        LET N == Len(triangles)
        IN /\ G.nodes = [k \in 1 .. N |-> k - 1]
           /\ \A k \in 0 .. (N - 1) : G.r[k] = TriangleRadius(triangles[k + 1])
           /\ EdgeSet(G) = {e \in Pairs(0 .. (N - 1)) :
                               {triangles[k + 1] : k \in e} \in shared}
           /\ \A u \in NodeSet(G) :
                 /\ Range(G.adj[u]) = {v \in NodeSet(G) : {u, v} \in EdgeSet(G)}
                 /\ Len(G.adj[u]) = Cardinality(Range(G.adj[u]))
           /\ \A e \in EdgeSet(G) :
                 2 * G.c[e][1] = G.c[e][2] * SumOver(G.r, e)

\* a graph of three nodes or more has been built after a pruning round took the
\* triangle 0 away, and one of its edges joins radii with an odd sum
C19_Witness ==
    /\ pc = "built"
    /\ round >= 1
    /\ Order(G) >= 3
    /\ triangles[1] # 0
    /\ \E e \in EdgeSet(G) : SumOver(G.r, e) % 2 = 1

\* what the slice alone determines: the graph vectorize persists for it in a batch
\* whose other slices are all empty (NotSaved when its own triangulation fails)
GraphOfSlice(sli) ==
    IF IsEmptySlice(sli) THEN EmptyGraph
    ELSE IF sli.triangulable THEN SomeGraph
    ELSE NotSaved

\* C20: the slices are processed independently: two runs whose batches agree on
\* slice k persist the same graph for slice k, whatever the other slices are.  With
\* the run among empty slices as the second run: when vectorize has ended, the graph
\* persisted for every slice is the one the slice alone determines.
C20_SliceGraphIndependent ==
    pc \in {"finished", "raised"} =>
        \A k \in 1 .. Len(slices) : persisted[k] = GraphOfSlice(slices[k])

----------------------------------------------------------------------------
(* C21: in modes 0 and 1 removeRedundantNodes terminates on every finite   *)
(* graph, and every pass that is followed by another pass has strictly     *)
(* decreased the node count.  counts[k + 1] is the node count after pass   *)
(* k; a pass is followed by another one exactly when the scan is entered   *)
(* with i >= 1.  The statement as written covers the first pass as well.   *)
Returned == pc \in {"done", "KeyError"}

C21_EveryPassDecreases ==
    /\ (mode \in {0, 1}) => <>Returned
    /\ [](mode \in {0, 1} /\ pc = "scan" /\ i >= 1 => counts[i + 1] < counts[i])

(* C21, as the code has it: the call terminates, and every pass other than *)
(* the first that is followed by another pass has strictly decreased the   *)
(* node count (the first pass may remove nothing and still be followed by  *)
(* a second one).                                                          *)
C21_TerminatesDecreasingAfterFirst ==
    /\ (mode \in {0, 1}) => <>Returned
    /\ [](mode \in {0, 1} /\ pc = "scan" /\ i >= 2 => counts[i + 1] < counts[i])

C21_Witness ==
    /\ pc = "done" /\ mode = 0 /\ i >= 3
    /\ counts[3] < counts[2] /\ counts[2] < counts[1]

(* C22: in modes 0 and 1 no pass is started after a pass, the very first   *)
(* one included, that left the node count unchanged.                       *)
C22_StopsAtFirstIdlePass ==
    mode \in {0, 1} /\ pc = "scan" /\ i >= 1 => counts[i + 1] # counts[i]

(* C22, as the code has it: no pass is started after a pass other than the *)
(* first that left the node count unchanged; a first pass that left it     *)
(* unchanged is followed by exactly one more pass unless the graph is      *)
(* empty.                                                                  *)
C22_StopsAtFirstIdlePassAfterFirst ==
    /\ mode \in {0, 1} /\ pc = "scan" /\ i >= 2 => counts[i + 1] # counts[i]
    /\ mode \in {0, 1} /\ pc = "done" /\ i >= 1 /\ counts[2] = counts[1]
           => i = IF counts[1] = 0 THEN 1 ELSE 2

C22_Witness ==
    /\ pc = "done" /\ mode \in {0, 1} /\ i = 2
    /\ counts[1] > 0 /\ counts[2] = counts[1] /\ counts[3] = counts[1]

(* C23: a pass in which the marked nodes are all but one of the remaining  *)
(* nodes removes exactly one node and completes without error.             *)
C23_HackRemovesOneNode ==
    [][(pc = "scan" /\ scanpos > Len(G.nodes) /\ HackApplies(nodelist, G))
           => (pc' # "KeyError" /\ Order(G') = Order(G) - 1)]_vars

(* C24: within one pass, a degree-2 node with a marked neighbour is not    *)
(* marked and neither adds nor overwrites an edge at a marked node, and    *)
(* no two adjacent nodes are marked in the same pass.                      *)
ScansBesideMarked ==
    /\ pc = "scan"
    /\ scanpos <= Len(G.nodes)
    /\ Degree(G, G.nodes[scanpos]) = 2
    /\ \E k \in 1 .. 2 : Neighbors(G, G.nodes[scanpos])[k] \in Range(nodelist)

MarkedIndependent ==
    \A a, b \in Range(nodelist) : {a, b} \notin EdgeSet(G)

C24_MarkedEndpointUntouched ==
    [][/\ ScansBesideMarked =>
            /\ nodelist' = nodelist
            /\ \A e \in EdgeSet(G') :
                   e \cap Range(nodelist) # {} =>
                       e \in EdgeSet(G) /\ G'.w[e] = G.w[e] /\ G'.c[e] = G.c[e]
       /\ MarkedIndependent']_vars

(* C24, as the code has it: such a node is not marked and adds no edge,    *)
(* but line 401 runs before the test of line 402, so it overwrites the     *)
(* attributes of the existing edge between its two neighbours, one of      *)
(* which is the marked one; no other edge changes, and no two adjacent     *)
(* nodes are marked in the same pass.                                      *)
C24_MarkedEndpointOverwrittenOnly ==
    [][/\ ScansBesideMarked =>
            LET node == G.nodes[scanpos]
                n1 == Neighbors(G, node)[1]
                n2 == Neighbors(G, node)[2]
            IN /\ nodelist' = nodelist
               /\ {n1, n2} \in EdgeSet(G)
               /\ EdgeSet(G') = EdgeSet(G)
               /\ G'.nodes = G.nodes /\ G'.adj = G.adj
               /\ \A e \in EdgeSet(G) \ {{n1, n2}} :
                      G'.w[e] = G.w[e] /\ G'.c[e] = G.c[e]
               /\ G'.w[{n1, n2}] = MergeLength(G.w[{node, n1}], G.w[{node, n2}])
       /\ MarkedIndependent']_vars

\* a degree-2 node beside a marked node has just been scanned and has changed the
\* weight of the edge at the marked node
C24_Witness ==
    /\ pc = "scan"
    /\ last # NoCollapse
    /\ ~last.marked
    /\ (last.n1 \in Range(nodelist) \/ last.n2 \in Range(nodelist))
    /\ G.w[{last.n1, last.n2}] # G0.w[{last.n1, last.n2}]

(* C25: bruteforcePruning with order P performs exactly P removal rounds,  *)
(* or stops before at the first round that finds no triangle of type end;  *)
(* a round removes only triangles of type end at that round; afterwards    *)
(* graphPruning types the survivors again against the surviving set and    *)
(* removes no triangle.                                                    *)
C25_PruningRounds ==
    [][/\ round' <= pruning'
       /\ (pc = "prune" /\ pc' = "prune") =>
              /\ round' = round + 1
              /\ Range(triangles') \subseteq Range(triangles)
              /\ Range(triangles) \ Range(triangles') # {}
              /\ \A t \in Range(triangles) \ Range(triangles') : ttype[t] = "end"
       /\ (pc = "prune" /\ pc' = "relabel") =>
              /\ triangles' = triangles
              /\ \/ round = pruning
                 \/ \A t \in Range(triangles) : ttype[t] # "end"
       /\ pc = "relabel" =>
              /\ triangles' = triangles
              /\ \A t \in Range(triangles) :
                     ttype'[t] = TypeByCount(SharedCount(t, Range(triangles), shared))]_vars

\* pruning has stopped before its order, on survivors none of which is an end, and
\* graphPruning has typed them again
C25_Witness ==
    /\ pc = "build"
    /\ round >= 1 /\ round < pruning
    /\ triangles # <<>>
    /\ Len(triangles) < Len(triangulation)

(* C26: with a mode that is none of 0, 1 and 2 the function returns before *)
(* the first iteration and leaves the graph unchanged.                     *)
C26_UnknownModeReturnsAtOnce ==
    mode \notin {0, 1, 2} => (pc \notin {"scan", "KeyError"} /\ i = 0 /\ G = G0)

(* C27: the fallback sweep of getInteriorPoint tests at most 360 candidates *)
(* one degree apart and returns the first one within the polygon, or the   *)
(* last one sampled when none is.                                          *)
\* lines 233-236 and 260-263: the sweep runs when the mean and both bisector
\* candidates are not within the polygon
SweepRuns(shape) ==
    /\ ~shape.centerWithin
    /\ ~Within(shape, FirstAngle(shape.phi))
    /\ ~Within(shape, SecondAngle(shape.phi))

\* lines 265-269: the candidate at rotation angle a is the (a + 1)-th one tested
SweepSamples(point) == point.angle + 1

SweptMarkers ==
    {h \in 1 .. Len(hole_points) :
        SweepRuns(flattened_contours[hole_points[h].contour + 1].shape)}

\* the marker h is the first candidate within the polygon, or the last of `most`
\* candidates when none of them is within it
FirstInsideOrLast(h, most) ==
    LET shape == flattened_contours[hole_points[h].contour + 1].shape
        point == hole_points[h].point
    IN /\ point.kind = "circle"
       /\ SweepSamples(point) <= most
       /\ \A b \in 0 .. (point.angle - 1) : ~Within(shape, b)
       /\ Within(shape, point.angle) \/ SweepSamples(point) = most

C27_AtMost360Candidates ==
    pc = "meshed" => \A h \in SweptMarkers : FirstInsideOrLast(h, 360)

(* C27, as the code has it: the sweep tests at most 361 candidates, at the *)
(* rotation angles 0 to 360 degrees, and returns the first one within the  *)
(* polygon, or the 361st when none is.                                     *)
C27_AtMost361Candidates ==
    pc = "meshed" => \A h \in SweptMarkers : FirstInsideOrLast(h, SweepEnd)

\* a mesh with one marker found by the sweep after other candidates and one marker
\* that is the last of 361 candidates, none of them within its contour
C27_Witness ==
    /\ pc = "meshed"
    /\ \E h \in SweptMarkers :
           /\ SweepSamples(hole_points[h].point) = SweepEnd
           /\ ~IsInside(flattened_contours[hole_points[h].contour + 1].shape,
                        hole_points[h].point)
    /\ \E h \in SweptMarkers :
           /\ SweepSamples(hole_points[h].point) > 1
           /\ SweepSamples(hole_points[h].point) < SweepEnd

(* Specification SpecConn: removeRedundantNodes in every mode on every      *)
(* labelled simple graph of at most MaxConnNodes nodes; the component maps *)
(* of C28 are costly to compute, hence the smaller graphs.                 *)
MaxConnNodes == 4

InitConn ==
    \E n \in 0 .. MaxConnNodes : \E E \in SUBSET Pairs(0 .. (n - 1)) : \E m \in Modes :
        InitAt(createGraph(n, E, LineX(n), IdR(n)), m, "start")

SpecConn == InitConn /\ [][Next]_vars

(* C28: in every mode, two nodes of the returned graph are connected in it *)
(* if and only if they were connected in the input graph, so the number of *)
(* connected components that contain a node whose degree is not 2 is the   *)
(* same before and after the call.                                         *)
\* the nodes that can be reached from S along the adjacency dicts of g
RECURSIVE Closure(_, _)
Closure(g, S) ==
    LET T == S \cup UNION {Range(Neighbors(g, u)) : u \in S}
    IN IF T = S THEN S ELSE Closure(g, T)

\* nx.connected_components as a map: the component of each node of g
ComponentOf(g) == [u \in NodeSet(g) |-> Closure(g, {u})]

\* the number of components, given as a map K, that contain a node of `anchors`
AnchoredComponents(K, anchors) ==
    Cardinality({K[u] : u \in {v \in DOMAIN K : K[v] \cap anchors # {}}})

NotDegreeTwo(g) == {u \in NodeSet(g) : Degree(g, u) # 2}

\* two nodes of the returned graph are in one component K of it iff they were in one
\* component K0 of the input
SameConnections(K, K0) == \A u, v \in DOMAIN K : v \in K[u] <=> v \in K0[u]

HasPlainCycle(K, g) == \E u \in DOMAIN K : K[u] \cap NotDegreeTwo(g) = {}

ConnectivityKept(K, K0) ==
    /\ SameConnections(K, K0)
    /\ AnchoredComponents(K, NodeSet(G)) = AnchoredComponents(K0, NodeSet(G0))
    /\ IF HasPlainCycle(K0, G0)
       THEN AnchoredComponents(K, NotDegreeTwo(G)) >= AnchoredComponents(K0, NotDegreeTwo(G0))
       ELSE AnchoredComponents(K, NotDegreeTwo(G)) = AnchoredComponents(K0, NotDegreeTwo(G0))

C29_NonDegreeTwoKept ==
    pc = "done" =>
        \A u \in NotDegreeTwo(G0) : u \in NodeSet(G) /\ Degree(G, u) = Degree(G0, u)

(* C30: for every slice with foreground (at least one raw contour),        *)
(* createContours returns a defined index of the longest contour that is   *)
(* a valid index into the returned list, whose contours all have at least  *)
(* 4 points; the returned list is never empty.                             *)
C30_LongestContourDefined ==
    (Len(raw_contours) >= 1 /\ pc # "createContours") =>
        /\ pc # "UnboundLocalError"
        /\ flattened_contours # <<>>
        /\ longuest_index \in 0 .. (Len(flattened_contours) - 1)
        /\ \A c \in 1 .. Len(flattened_contours) :
               flattened_contours[c].len >= ContourThreshold + 1

====
